---------------------------- MODULE Spec2Model ----------------------------
(***************************************************************************)
(* A model of tools/cordova/project.js (class CordovaProject): the         *)
(* command execution context (runCommands), the plugin version resolver    *)
(* (convertToGitUrl, targetForPlugin), and the platform and plugin         *)
(* reconcilers (ensurePlatformsAreSynchronized,                            *)
(* ensurePluginsAreSynchronized).                                          *)
(*                                                                         *)
(* Strings are sequences of tokens, each token a chunk of characters that  *)
(* the program's patterns never split ("https://", ".git", "#", a 40-hex   *)
(* SHA, ...).  The JavaScript value undefined is the one-token sequence    *)
(* Undefined, which no string of the model equals.                         *)
(***************************************************************************)
EXTENDS Integers, Sequences, FiniteSets, TLC

VARIABLES
    cwd,          \* process.cwd(): the process-wide working directory
    spawnEnv,     \* the environment installed by superspawn.setEnv
    rc,           \* per fiber: the runCommands invocation it is in, if any
    calls,        \* per fiber: how many runCommands invocations it has begun
    cwdAtCall,    \* per fiber: the working directory just before its call
    plugins,      \* the desired plugin map handed to ensurePluginsAreSynchronized
    fetchJson,    \* plugins/fetch.json, which the toolchain writes
    sync,         \* the ensurePluginsAreSynchronized call in progress: its locals
    ops,          \* the toolchain operations the current call has issued
    progress,     \* the buildmessage.reportProgress reports of the current call
    previous,     \* how the call before the current one ended
    platforms,    \* the desired platforms handed to ensurePlatformsAreSynchronized
    platformsDir, \* the platforms installed in the project directory
    psync,        \* the ensurePlatformsAreSynchronized call in progress: its locals
    pops          \* the toolchain operations the current call has issued

runVars == <<cwd, spawnEnv, rc, calls, cwdAtCall>>
pluginVars == <<plugins, fetchJson, sync, ops, progress, previous>>
platformVars == <<platforms, platformsDir, psync, pops>>
vars == <<cwd, spawnEnv, rc, calls, cwdAtCall, plugins, fetchJson, sync, ops, progress,
          previous, platforms, platformsDir, psync, pops>>

-----------------------------------------------------------------------------
(* Bounds of the model *)

\* runCommands invocations each fiber makes
MaxCalls == 2

\* plugins in a desired plugin map
MaxDesired == 2

\* plugins in fetch.json before the first reconciliation
MaxInstalled == 2

\* platforms in a desired platform list
MaxPlatforms == 2

-----------------------------------------------------------------------------
(* Strings *)

Undefined == <<"undefined">>

Sha1 == "92fe99b7248075318f6446b288995d4381d24cd2"
Sha2 == "0123456789abcdef0123456789abcdef01234567"
Shas == {Sha1, Sha2}

HttpSchemes == {"http://", "https://"}

\* s.substr(n) on token sequences
SubSeqFrom(s, n) == SubSeq(s, n, Len(s))

\* positions of token t in s
Positions(s, t) == {i \in 1..Len(s) : s[i] = t}

Min(S) == CHOOSE x \in S : \A y \in S : x <= y

\* !version in JavaScript: undefined and the empty string are falsy
Falsy(v) == v = Undefined \/ v = <<>>

-----------------------------------------------------------------------------
(* tools/utils/utils.js *)

\* /^https?:\/\/.*[0-9a-f]{40}/
isUrlWithSha(x) ==
    /\ Len(x) >= 2
    /\ x[1] \in HttpSchemes
    /\ \E i \in 2..Len(x) : x[i] \in Shas

\* /^file:\/\/.+/
isUrlWithFileScheme(x) ==
    /\ Len(x) >= 2
    /\ x[1] = "file://"

isPathRelative(p) == Len(p) = 0 \/ p[1] # "/"

-----------------------------------------------------------------------------
(* The version resolver *)

\* the value that stands for the Error convertToGitUrl throws
TarballError == <<"Error: Meteor no longer supports installing Cordova plugins from tarball URLs">>

\* the places (i, j) where /^https?:\/\/github.com\/(.+?)\/(.+?)\/tarball\/([0-9a-f]{40})/
\* can put the "/" after the organization and the "/tarball/" after the repository
TarballSplits(url) ==
    IF Len(url) >= 3 /\ url[1] \in HttpSchemes /\ url[2] = "github.com" /\ url[3] = "/"
    THEN {p \in (1..Len(url)) \X (1..Len(url)) :
            /\ p[1] >= 5
            /\ url[p[1]] = "/"
            /\ p[2] >= p[1] + 2
            /\ url[p[2]] = "/tarball/"
            /\ p[2] + 1 <= Len(url)
            /\ url[p[2] + 1] \in Shas}
    ELSE {}

\* the non-greedy match: the shortest organization, then the shortest repository
TarballMatch(url) ==
    LET i == Min({p[1] : p \in TarballSplits(url)})
        j == Min({p[2] : p \in {q \in TarballSplits(url) : q[1] = i}})
    IN  [organization |-> SubSeq(url, 4, i - 1),
         repository   |-> SubSeq(url, i + 1, j - 1),
         sha          |-> url[j + 1]]

\* a rewrite that keeps the scheme of the tarball URL
convertToGitUrlKeepingScheme(url) ==
    IF TarballSplits(url) # {}
    THEN LET match == TarballMatch(url)
         IN  <<url[1], "github.com", "/">> \o match.organization \o <<"/">>
                \o match.repository \o <<".git", "#", match.sha>>
    ELSE IF Positions(url, ".git") # {}
    THEN url
    ELSE TarballError

\* a conversion that passes on what it cannot rewrite
convertToGitUrlLenient(url) ==
    IF TarballSplits(url) # {}
    THEN LET match == TarballMatch(url)
         IN  <<"https://", "github.com", "/">> \o match.organization \o <<"/">>
                \o match.repository \o <<".git", "#", match.sha>>
    ELSE url

convertToGitUrl(url) ==
    IF TarballSplits(url) # {}
    THEN LET match == TarballMatch(url)
         IN  <<"https://", "github.com", "/">> \o match.organization \o <<"/">>
                \o match.repository \o <<".git", "#", match.sha>>
    ELSE IF Positions(url, ".git") # {}
    THEN url
    ELSE TarballError

\* the three path segments from <projectDir>/.meteor/local/cordova-build up to
\* projectDir
UpToProjectDir == <<"../../..", "/">>

resolveCordovaLocalPluginPath(pluginPath) ==
    LET stripped == SubSeqFrom(pluginPath, 2)
    IN  IF isPathRelative(stripped) THEN UpToProjectDir \o stripped ELSE stripped

\* a resolver without the test for a missing version
targetForPluginOfAnyVersion(name, version) ==
    IF isUrlWithSha(version) THEN convertToGitUrl(version)
    ELSE IF isUrlWithFileScheme(version) THEN resolveCordovaLocalPluginPath(version)
    ELSE <<name, "@">> \o version

\* files.convertToOSPath leaves a POSIX path as it is
targetForPlugin(name, version) ==
    IF Falsy(version) THEN <<name>>
    ELSE IF isUrlWithSha(version) THEN convertToGitUrl(version)
    ELSE IF isUrlWithFileScheme(version) THEN resolveCordovaLocalPluginPath(version)
    ELSE <<name, "@">> \o version

-----------------------------------------------------------------------------
(* The command execution context: runCommands *)

Fibers == {"main", "other"}

ProjectRoot  == "/app/.meteor/local/cordova-build"
OtherRoot    == "/other/.meteor/local/cordova-build"
StartDir     == "/app"
MissingDir   == "/missing/.meteor/local/cordova-build"

\* the directories process.chdir can enter
Directories == {StartDir, ProjectRoot, OtherRoot}

\* null: runCommands(..., null), the override createIfNeeded passes
NoCwd == "null"

CwdArgs == {NoCwd, ProjectRoot, OtherRoot, MissingDir}

DefaultEnv == "defaultEnvWithPathsAdded()"
Envs == {DefaultEnv, "defaultEnvWithPathsAdded(extraPaths)"}

\* how asyncFunc() settles
ActionOutcomes ==
    {[kind |-> "resolve", value |-> v] : v \in {"undefined", "requirements"}}
      \cup {[kind |-> "reject", value |-> e] : e \in {"CordovaError", "TypeError"}}

\* how an asyncFunc that awaits cordova.raw.plugin or cordova.raw.platform and
\* returns nothing settles
CommandOutcomes == {o \in ActionOutcomes : o.kind = "resolve" => o.value = "undefined"}

ExitWithCode(code) == [kind |-> "throw", value |-> "main.ExitWithCode", code |-> code]

\* a catch block that rethrows whatever it caught
SettleRethrowing(outcome) ==
    IF outcome.kind = "resolve"
    THEN [kind |-> "return", value |-> outcome.value, code |-> 0]
    ELSE [kind |-> "throw", value |-> outcome.value, code |-> 0]

\* a catch block that logs the error and throws nothing
SettleSwallowing(outcome) ==
    [kind |-> "return", value |-> IF outcome.kind = "resolve" THEN outcome.value ELSE "undefined",
     code |-> 0]

\* what runCommands does with the settled action: lines 432-442
Settle(outcome) ==
    IF outcome.kind = "resolve"
    THEN [kind |-> "return", value |-> outcome.value, code |-> 0]
    ELSE IF outcome.value = "CordovaError"
    THEN ExitWithCode(1)
    ELSE [kind |-> "throw", value |-> outcome.value, code |-> 0]

\* a restoration placed after the try block instead of in a finally block
RestoreCwdAfterReturn(oldCwd, current, outcome) ==
    IF oldCwd # "" /\ outcome.kind = "resolve" THEN oldCwd ELSE current

\* the finally block: lines 443-447
RestoreCwd(oldCwd, current, outcome) ==
    IF oldCwd # "" THEN oldCwd ELSE current

Idle == [pc |-> "idle", oldCwd |-> "", cwdArg |-> NoCwd, outcome |-> [kind |-> "none", value |-> ""],
         result |-> [kind |-> "none", value |-> "", code |-> 0]]

\* lines 423-433 up to the point where Promise.await suspends the fiber;
\* process.chdir throws, before the try block, on a directory that is missing
runCommandsBegin(f, env, cwdArg) ==
    /\ rc[f].pc = "idle"
    /\ cwdAtCall' = [cwdAtCall EXCEPT ![f] = cwd]
    /\ calls' = [calls EXCEPT ![f] = @ + 1]
    /\ IF cwdArg # NoCwd /\ cwdArg \notin Directories
       THEN /\ rc' = [rc EXCEPT ![f] = [Idle EXCEPT !.cwdArg = cwdArg, !.oldCwd = cwd,
                         !.outcome = [kind |-> "reject", value |-> "ENOENT"],
                         !.result = [kind |-> "throw", value |-> "ENOENT", code |-> 0]]]
            /\ UNCHANGED <<cwd, spawnEnv>>
       ELSE /\ rc' = [rc EXCEPT ![f] = [Idle EXCEPT !.pc = "awaiting", !.oldCwd = cwd,
                                                    !.cwdArg = cwdArg]]
            /\ cwd' = IF cwdArg # NoCwd THEN cwdArg ELSE cwd
            /\ spawnEnv' = env

\* the fiber resumes with the settled action: lines 433-447
runCommandsEnd(f, outcome) ==
    /\ rc[f].pc = "awaiting"
    /\ rc' = [rc EXCEPT ![f] = [@ EXCEPT !.pc = "idle", !.outcome = outcome,
                                         !.result = Settle(outcome)]]
    /\ cwd' = RestoreCwd(rc[f].oldCwd, cwd, outcome)
    /\ UNCHANGED <<spawnEnv, calls, cwdAtCall>>

-----------------------------------------------------------------------------
(* Fibers of one process that each run commands *)

InitRun ==
    /\ cwd = StartDir
    /\ spawnEnv = "inherited"
    /\ rc = [f \in Fibers |-> Idle]
    /\ calls = [f \in Fibers |-> 0]
    /\ cwdAtCall = [f \in Fibers |-> StartDir]
    /\ plugins = <<>>
    /\ fetchJson = <<>>
    /\ sync = "none"
    /\ ops = <<>>
    /\ progress = <<>>
    /\ previous = "none"
    /\ platforms = <<>>
    /\ platformsDir = {}
    /\ psync = "none"
    /\ pops = <<>>

Call(f) ==
    /\ calls[f] < MaxCalls
    /\ \E env \in Envs, cwdArg \in CwdArgs : runCommandsBegin(f, env, cwdArg)
    /\ UNCHANGED <<pluginVars, platformVars>>

Complete(f) ==
    /\ \E outcome \in ActionOutcomes : runCommandsEnd(f, outcome)
    /\ UNCHANGED <<pluginVars, platformVars>>

NextRun == \E f \in Fibers : Call(f) \/ Complete(f)

SpecRun == InitRun /\ [][NextRun]_vars

-----------------------------------------------------------------------------
(* Plugin version specifiers *)

PluginNames == {"cordova-plugin-camera", "cordova-plugin-device", "cordova-plugin-file"}

\* the order in which _.each walks the keys of a plugin map
NameOrder == <<"cordova-plugin-camera", "cordova-plugin-device", "cordova-plugin-file">>

TarballUrl(scheme, organization, repository, sha) ==
    <<scheme, "github.com", "/", organization, "/", repository, "/tarball/", sha>>

GitUrl(scheme, organization, repository) ==
    <<scheme, "github.com", "/", organization, "/", repository, ".git">>

\* a URL with a SHA that is neither a GitHub tarball URL nor a .git URL
OtherShaUrl == <<"https://", "example.com", "/", "meteor", "/", "plugin", "/tarball/", Sha1>>

\* a URL without a SHA and without .git
PlainUrl == <<"https://", "example.com", "/", "plugin.tgz">>

RelativeFile == <<"file://", "plugins/camera">>
AbsoluteFile == <<"file://", "/", "opt/plugins/camera">>

\* the version specifiers of the desired plugin maps of several plugins
DesiredVersions ==
    {Undefined, <<>>, <<"1.0.0">>, <<"2.0.0">>,
     TarballUrl("https://", "meteor", "plugin", Sha1), OtherShaUrl, RelativeFile}

TarballUrls ==
    {TarballUrl(scheme, organization, "plugin", sha) :
        scheme \in HttpSchemes, organization \in {"meteor", "apache"}, sha \in Shas}

\* the version specifiers of the desired plugin maps of one plugin
AllVersions ==
    DesiredVersions \cup TarballUrls
      \cup {TarballUrl("https://", "meteor", "plugin", Sha1) \o <<"/", "README.md">>,
            GitUrl("https://", "meteor", "plugin") \o <<"#", Sha1>>,
            GitUrl("http://", "meteor", "plugin") \o <<"#", Sha2>>,
            GitUrl("https://", "meteor", "plugin"),
            GitUrl("git://", "meteor", "plugin") \o <<"#", Sha1>>,
            PlainUrl, AbsoluteFile}

\* the version specifiers whose installation wrote the fetch.json the model starts from
InstalledVersions ==
    {Undefined, <<"1.0.0">>, TarballUrl("https://", "meteor", "plugin", Sha1), RelativeFile}

\* the maps from at most n of the names to values of V
MapsUpTo(names, V, n) ==
    UNION {[S -> V] : S \in {T \in SUBSET names : Cardinality(T) <= n}}

\* the keys of map m, in iteration order
KeysInOrder(m) ==
    LET F[i \in 0..Len(NameOrder)] ==
            IF i = 0 THEN <<>>
            ELSE IF NameOrder[i] \in DOMAIN m THEN Append(F[i - 1], NameOrder[i])
            ELSE F[i - 1]
    IN  F[Len(NameOrder)]

-----------------------------------------------------------------------------
(* The toolchain: cordova.raw.plugin and the fetch.json it writes *)

RegistrySource(id) == [type |-> "registry", id |-> id, url |-> <<>>, ref |-> <<>>, path |-> <<>>]
GitSource(url, ref) == [type |-> "git", id |-> <<>>, url |-> url, ref |-> ref, path |-> <<>>]
LocalSource(path) == [type |-> "local", id |-> <<>>, url |-> <<>>, ref |-> <<>>, path |-> path]

\* the source the toolchain records for `plugin add <target>`
pluginAddSource(target) ==
    IF target[1] \in HttpSchemes
    THEN IF Positions(target, "#") = {}
         THEN GitSource(target, Undefined)
         ELSE LET h == Min(Positions(target, "#"))
              IN  GitSource(SubSeq(target, 1, h - 1), SubSeqFrom(target, h + 1))
    ELSE IF target[1] \in PluginNames
    THEN RegistrySource(target)
    ELSE LocalSource(target)

\* fetch.json after `plugin add <target>` of the plugin called name
pluginAdd(meta, name, target) ==
    [n \in DOMAIN meta \cup {name} |-> IF n = name THEN pluginAddSource(target) ELSE meta[n]]

\* fetch.json after `plugin rm <names>`
pluginRm(meta, names) == [n \in DOMAIN meta \ names |-> meta[n]]

-----------------------------------------------------------------------------
(* listInstalledPlugins *)

\* id.split('@')[0]
SplitAt0(id) ==
    LET at == Positions(id, "@")
    IN  IF at = {} THEN id ELSE SubSeq(id, 1, Min(at) - 1)

\* id.split('@')[1]
SplitAt1(id) ==
    LET at == Positions(id, "@")
    IN  IF at = {} THEN Undefined
        ELSE LET first == Min(at)
                 rest == {i \in at : i > first}
             IN  SubSeq(id, first + 1, IF rest = {} THEN Len(id) ELSE Min(rest) - 1)

installedVersion(source) ==
    IF source.type = "registry" THEN SplitAt1(source.id)
    ELSE IF source.type = "git" THEN source.url \o <<"#">> \o source.ref
    ELSE source.path

listInstalledPlugins(meta) == [n \in DOMAIN meta |-> installedVersion(meta[n])]

-----------------------------------------------------------------------------
(* ensurePluginsAreSynchronized *)

\* lines 335-342: the plugins of the desired map given by a file:// URL
PluginsFromLocalPath(desired) ==
    [n \in {m \in DOMAIN desired : isUrlWithFileScheme(desired[m])} |-> desired[n]]

\* lines 343-345
NormalizedVersion(version) ==
    IF isUrlWithSha(version) THEN convertToGitUrl(version) ELSE version

\* line 344 throws for some plugin of the desired map
NormalizationThrows(desired) ==
    \E n \in DOMAIN desired :
        /\ ~isUrlWithFileScheme(desired[n])
        /\ NormalizedVersion(desired[n]) = TarballError

\* a check that looks for missing and surplus plugins only, not at versions
ShouldReinstallWhenNamesDiffer(desired, installed) ==
    \/ \E n \in DOMAIN desired :
          ~isUrlWithFileScheme(desired[n]) /\ n \notin DOMAIN installed
    \/ \E n \in DOMAIN installed : n \notin DOMAIN desired

\* a check without the loop over the installed plugins of lines 359-365
ShouldReinstallWhenDesiredDiffers(desired, installed) ==
    \E n \in DOMAIN desired :
        /\ ~isUrlWithFileScheme(desired[n])
        /\ \/ n \notin DOMAIN installed
           \/ installed[n] # NormalizedVersion(desired[n])

\* lines 331-365
ShouldReinstallAllPlugins(desired, installed) ==
    \/ \E n \in DOMAIN desired :
          /\ ~isUrlWithFileScheme(desired[n])
          /\ \/ n \notin DOMAIN installed
             \/ installed[n] # NormalizedVersion(desired[n])
    \/ \E n \in DOMAIN installed : n \notin DOMAIN desired

\* a removal of the local-path plugins only, whatever was decided
PluginsToRemoveLocalPathOnly(reinstallAll, fromLocalPath, installed) ==
    DOMAIN fromLocalPath \cap DOMAIN installed

\* a removal of the local-path plugins, installed or not
PluginsToRemoveWithoutIntersection(reinstallAll, fromLocalPath, installed) ==
    IF reinstallAll THEN DOMAIN installed ELSE DOMAIN fromLocalPath

\* lines 369-377
PluginsToRemove(reinstallAll, fromLocalPath, installed) ==
    IF reinstallAll THEN DOMAIN installed
    ELSE DOMAIN fromLocalPath \cap DOMAIN installed

\* an install list that is the whole desired map in both branches
PluginsToInstallAlways(reinstallAll, desired, fromLocalPath) == desired

\* an install list that is the local-path plugins in both branches
PluginsToInstallLocalPathOnly(reinstallAll, desired, fromLocalPath) == fromLocalPath

\* lines 383-387
PluginsToInstall(reinstallAll, desired, fromLocalPath) ==
    IF reinstallAll THEN desired ELSE fromLocalPath

\* line 392 and lines 396-399: what is reported once pluginsInstalled plugins
\* have been added; pluginsInstalled is incremented before it is read
reportProgress(pluginsInstalled, pluginsCount) == <<pluginsInstalled, pluginsCount>>

\* pluginsInstalled++ instead of ++pluginsInstalled
PostIncrement(pluginsInstalled) == pluginsInstalled

\* ++pluginsInstalled: the value line 397 reports
PreIncrement(pluginsInstalled) == pluginsInstalled + 1

NoSync == [pc |-> "idle", fetched |-> <<>>, installedPlugins |-> <<>>,
           shouldReinstallAllPlugins |-> FALSE,
           pluginsFromLocalPath |-> <<>>, pluginsToRemove |-> {}, pluginsToInstall |-> <<>>,
           pending |-> <<>>, pluginsInstalled |-> 0, result |-> "none"]

NoPrevious == [result |-> "none", ops |-> <<>>]

RmOp(names) == [op |-> "plugin rm", names |-> names, target |-> <<>>]
AddOp(name, target) == [op |-> "plugin add", names |-> {name}, target |-> target]

\* the result of the call when a runCommands in it does not return
Thrown(result) == result.value

InitPlugins ==
    /\ cwd = StartDir
    /\ spawnEnv = "inherited"
    /\ rc = [f \in Fibers |-> Idle]
    /\ calls = [f \in Fibers |-> 0]
    /\ cwdAtCall = [f \in Fibers |-> StartDir]
    /\ plugins \in MapsUpTo(PluginNames, DesiredVersions, MaxDesired)
                    \cup MapsUpTo(PluginNames, AllVersions, 1)
    /\ \E before \in MapsUpTo(PluginNames, InstalledVersions, MaxInstalled) :
          fetchJson = [n \in DOMAIN before |-> pluginAddSource(targetForPlugin(n, before[n]))]
    /\ sync = NoSync
    /\ ops = <<>>
    /\ progress = <<>>
    /\ previous = NoPrevious
    /\ platforms = <<>>
    /\ platformsDir = {}
    /\ psync = "none"
    /\ pops = <<>>

\* lines 320-367: read fetch.json and decide
Decide ==
    /\ \/ sync.pc = "idle"
       \/ sync.pc = "done" /\ sync.result = "returned" /\ previous = NoPrevious
    /\ previous' = [result |-> sync.result, ops |-> ops]
    /\ ops' = <<>>
    /\ progress' = <<>>
    /\ LET installed == listInstalledPlugins(fetchJson)
           local == PluginsFromLocalPath(plugins)
           reinstallAll == ShouldReinstallAllPlugins(plugins, installed)
           started == [NoSync EXCEPT !.fetched = fetchJson, !.installedPlugins = installed]
       IN  sync' =
             IF NormalizationThrows(plugins)
             THEN [started EXCEPT !.pc = "done", !.result = "Error"]
             ELSE IF reinstallAll \/ DOMAIN local # {}
             THEN [started EXCEPT !.pc = "remove", !.shouldReinstallAllPlugins = reinstallAll,
                                  !.pluginsFromLocalPath = local]
             ELSE [started EXCEPT !.pc = "done", !.result = "returned"]
    /\ UNCHANGED <<runVars, plugins, fetchJson, platformVars>>

\* lines 369-379 and removePlugins, lines 295-302
RemovePlugins ==
    /\ sync.pc = "remove"
    /\ LET toRemove == PluginsToRemove(sync.shouldReinstallAllPlugins,
                                       sync.pluginsFromLocalPath, sync.installedPlugins)
       IN  IF toRemove = {}
           THEN /\ sync' = [sync EXCEPT !.pc = "install", !.pluginsToRemove = toRemove]
                /\ UNCHANGED <<runVars, ops>>
           ELSE /\ runCommandsBegin("main", DefaultEnv, ProjectRoot)
                /\ ops' = Append(ops, RmOp(toRemove))
                /\ sync' = [sync EXCEPT !.pc = "removing", !.pluginsToRemove = toRemove]
    /\ UNCHANGED <<plugins, fetchJson, progress, previous, platformVars>>

\* cordova.raw.plugin('rm', ...) settles and removePlugins returns or throws
RemovePluginsEnd ==
    /\ sync.pc = "removing"
    /\ \E outcome \in CommandOutcomes :
          /\ runCommandsEnd("main", outcome)
          /\ fetchJson' = IF outcome.kind = "resolve"
                          THEN pluginRm(fetchJson, sync.pluginsToRemove) ELSE fetchJson
          /\ sync' = IF Settle(outcome).kind = "return"
                     THEN [sync EXCEPT !.pc = "install"]
                     ELSE [sync EXCEPT !.pc = "done", !.result = Thrown(Settle(outcome))]
    /\ UNCHANGED <<plugins, ops, progress, previous, platformVars>>

\* lines 383-392
StartInstall ==
    /\ sync.pc = "install"
    /\ LET toInstall == PluginsToInstall(sync.shouldReinstallAllPlugins, plugins,
                                         sync.pluginsFromLocalPath)
       IN  /\ sync' = [sync EXCEPT !.pc = "add", !.pluginsToInstall = toInstall,
                                   !.pending = KeysInOrder(toInstall), !.pluginsInstalled = 0]
           /\ progress' = Append(progress, reportProgress(0, Cardinality(DOMAIN toInstall)))
    /\ UNCHANGED <<runVars, plugins, fetchJson, ops, previous, platformVars>>

\* line 393-394 and addPlugin, lines 283-292, for the next plugin to install
AddPlugin ==
    /\ sync.pc = "add"
    /\ IF sync.pending = <<>>
       THEN /\ sync' = [sync EXCEPT !.pc = "done", !.result = "returned"]
            /\ UNCHANGED <<runVars, ops>>
       ELSE LET name == Head(sync.pending)
                target == targetForPlugin(name, sync.pluginsToInstall[name])
            IN  IF target = TarballError
                THEN /\ sync' = [sync EXCEPT !.pc = "done", !.result = "Error"]
                     /\ UNCHANGED <<runVars, ops>>
                ELSE /\ runCommandsBegin("main", DefaultEnv, ProjectRoot)
                     /\ ops' = Append(ops, AddOp(name, target))
                     /\ sync' = [sync EXCEPT !.pc = "adding"]
    /\ UNCHANGED <<plugins, fetchJson, progress, previous, platformVars>>

\* cordova.raw.plugin('add', ...) settles; lines 396-399 report the progress
AddPluginEnd ==
    /\ sync.pc = "adding"
    /\ \E outcome \in CommandOutcomes :
          /\ runCommandsEnd("main", outcome)
          /\ fetchJson' = IF outcome.kind = "resolve"
                          THEN pluginAdd(fetchJson, Head(sync.pending), ops[Len(ops)].target)
                          ELSE fetchJson
          /\ IF Settle(outcome).kind = "return"
             THEN /\ sync' = [sync EXCEPT !.pc = "add", !.pending = Tail(@),
                                          !.pluginsInstalled = @ + 1]
                  /\ progress' = Append(progress,
                                        reportProgress(PreIncrement(sync.pluginsInstalled),
                                                       Cardinality(DOMAIN sync.pluginsToInstall)))
             ELSE /\ sync' = [sync EXCEPT !.pc = "done", !.result = Thrown(Settle(outcome))]
                  /\ progress' = progress
    /\ UNCHANGED <<plugins, ops, previous, platformVars>>

\* addPlugin, lines 283-292, called on its own for a plugin of the desired map
AddPluginAlone ==
    /\ sync.pc = "idle"
    /\ \E name \in DOMAIN plugins :
          LET target == targetForPlugin(name, plugins[name])
              started == [NoSync EXCEPT !.fetched = fetchJson, !.pending = <<name>>]
          IN  IF target = TarballError
              THEN /\ sync' = [started EXCEPT !.pc = "added", !.result = "Error"]
                   /\ UNCHANGED <<runVars, ops>>
              ELSE /\ runCommandsBegin("main", DefaultEnv, ProjectRoot)
                   /\ ops' = Append(ops, AddOp(name, target))
                   /\ sync' = [started EXCEPT !.pc = "addPlugin"]
    /\ UNCHANGED <<plugins, fetchJson, progress, previous, platformVars>>

AddPluginAloneEnd ==
    /\ sync.pc = "addPlugin"
    /\ \E outcome \in CommandOutcomes :
          /\ runCommandsEnd("main", outcome)
          /\ fetchJson' = IF outcome.kind = "resolve"
                          THEN pluginAdd(fetchJson, Head(sync.pending), ops[Len(ops)].target)
                          ELSE fetchJson
          /\ sync' = IF Settle(outcome).kind = "return"
                     THEN [sync EXCEPT !.pc = "added", !.result = "returned"]
                     ELSE [sync EXCEPT !.pc = "added", !.result = Thrown(Settle(outcome))]
    /\ UNCHANGED <<plugins, ops, progress, previous, platformVars>>

NextPlugins ==
    \/ AddPluginAlone
    \/ AddPluginAloneEnd
    \/ Decide
    \/ RemovePlugins
    \/ RemovePluginsEnd
    \/ StartInstall
    \/ AddPlugin
    \/ AddPluginEnd

SpecPlugins == InitPlugins /\ [][NextPlugins]_vars

-----------------------------------------------------------------------------
(* Platforms: cordova.raw.platform and ensurePlatformsAreSynchronized *)

\* AVAILABLE_PLATFORMS of tools/cordova/index.js
AVAILABLE_PLATFORMS == {"ios", "android", "web"}

\* the platforms a project directory can hold; the last is none of
\* AVAILABLE_PLATFORMS
Platforms == AVAILABLE_PLATFORMS \cup {"blackberry10"}

\* the order in which cordova_util.listPlatforms lists the platforms
PlatformOrder == <<"android", "blackberry10", "ios", "web">>

\* the sequences of at most n different elements of S
ListsUpTo(S, n) ==
    UNION {{q \in [1..k -> S] : \A i, j \in 1..k : i # j => q[i] # q[j]} : k \in 0..n}

\* _.contains(list, x)
Contains(list, x) == \E i \in 1..Len(list) : list[i] = x

\* line 185
listInstalledPlatforms(dir) ==
    LET F[i \in 0..Len(PlatformOrder)] ==
            IF i = 0 THEN <<>>
            ELSE IF PlatformOrder[i] \in dir THEN Append(F[i - 1], PlatformOrder[i])
            ELSE F[i - 1]
    IN  F[Len(PlatformOrder)]

\* a first loop without the `continue` of line 218
ShouldAddAlways(platform, installedPlatforms) == TRUE

\* line 218: the platform the first loop adds
ShouldAdd(platform, installedPlatforms) == ~Contains(installedPlatforms, platform)

\* a removal of every installed platform that is not desired
ShouldRemoveUnlisted(platform, desired) == ~Contains(desired, platform)

\* lines 224-225: the platform the second loop removes
ShouldRemove(platform, desired) ==
    ~Contains(desired, platform) /\ platform \in AVAILABLE_PLATFORMS

\* the first position from `from` on in list whose element is one of wanted,
\* or 0: where a for-of loop with a condition acts next
FirstFrom(list, from, wanted) ==
    LET hits == {i \in from..Len(list) : list[i] \in wanted}
    IN  IF hits = {} THEN 0 ELSE Min(hits)

PlatformOp(op, platform) == [op |-> op, platform |-> platform]

\* a method whose loop of removals stands before its loop of additions
LoopAfterRemovalsFirst(pc) ==
    IF pc = "idle" THEN "removes"
    ELSE IF pc = "removes" THEN "adds"
    ELSE "done"

\* the statements of ensurePlatformsAreSynchronized in their order: the loop
\* of lines 217-221, then the loop of lines 223-228, then the return
LoopAfter(pc) ==
    IF pc = "idle" THEN "adds"
    ELSE IF pc = "adds" THEN "removes"
    ELSE "done"

NoPlatformSync == [pc |-> "idle", installedPlatforms |-> <<>>, next |-> 1, result |-> "none",
                   previous |-> NoPrevious]

InitPlatforms ==
    /\ cwd = StartDir
    /\ spawnEnv = "inherited"
    /\ rc = [f \in Fibers |-> Idle]
    /\ calls = [f \in Fibers |-> 0]
    /\ cwdAtCall = [f \in Fibers |-> StartDir]
    /\ plugins = <<>>
    /\ fetchJson = <<>>
    /\ sync = "none"
    /\ ops = <<>>
    /\ progress = <<>>
    /\ previous = "none"
    /\ platforms \in ListsUpTo(Platforms, MaxPlatforms)
    /\ platformsDir \in SUBSET Platforms
    /\ psync = NoPlatformSync
    /\ pops = <<>>

\* lines 212-215
ReadPlatforms ==
    /\ \/ psync.pc = "idle"
       \/ psync.pc = "done" /\ psync.result = "returned" /\ psync.previous = NoPrevious
    /\ psync' = [NoPlatformSync EXCEPT
                    !.pc = LoopAfter("idle"),
                    !.installedPlatforms = listInstalledPlatforms(platformsDir),
                    !.previous = IF psync.pc = "idle" THEN NoPrevious
                                 ELSE [result |-> psync.result, ops |-> pops]]
    /\ pops' = <<>>
    /\ UNCHANGED <<runVars, pluginVars, platforms, platformsDir>>

\* lines 217-221 and addPlatform, lines 194-197: on to the next platform to add
AddPlatform ==
    /\ psync.pc = "adds"
    /\ LET toAdd == {p \in Platforms : ShouldAdd(p, psync.installedPlatforms)}
           i == FirstFrom(platforms, psync.next, toAdd)
       IN  IF i = 0
           THEN /\ psync' = [psync EXCEPT !.pc = LoopAfter("adds"), !.next = 1,
                                     !.result = IF LoopAfter("adds") = "done"
                                                THEN "returned" ELSE @]
                /\ UNCHANGED <<runVars, pops>>
           ELSE /\ runCommandsBegin("main", DefaultEnv, ProjectRoot)
                /\ pops' = Append(pops, PlatformOp("platform add", platforms[i]))
                /\ psync' = [psync EXCEPT !.pc = "adding", !.next = i]
    /\ UNCHANGED <<pluginVars, platforms, platformsDir>>

\* cordova.raw.platform('add', ...) settles and addPlatform returns or throws
AddPlatformEnd ==
    /\ psync.pc = "adding"
    /\ \E outcome \in CommandOutcomes :
          /\ runCommandsEnd("main", outcome)
          /\ platformsDir' = IF outcome.kind = "resolve"
                             THEN platformsDir \cup {platforms[psync.next]} ELSE platformsDir
          /\ psync' = IF Settle(outcome).kind = "return"
                      THEN [psync EXCEPT !.pc = "adds", !.next = @ + 1]
                      ELSE [psync EXCEPT !.pc = "done", !.result = Thrown(Settle(outcome))]
    /\ UNCHANGED <<pluginVars, platforms, pops>>

\* lines 223-228 and removePlatform, lines 200-203: on to the next platform to
\* remove
RemovePlatform ==
    /\ psync.pc = "removes"
    /\ LET toRemove == {p \in Platforms : ShouldRemove(p, platforms)}
           j == FirstFrom(psync.installedPlatforms, psync.next, toRemove)
       IN  IF j = 0
           THEN /\ psync' = [psync EXCEPT !.pc = LoopAfter("removes"), !.next = 1,
                                     !.result = IF LoopAfter("removes") = "done"
                                                THEN "returned" ELSE @]
                /\ UNCHANGED <<runVars, pops>>
           ELSE /\ runCommandsBegin("main", DefaultEnv, ProjectRoot)
                /\ pops' = Append(pops, PlatformOp("platform rm", psync.installedPlatforms[j]))
                /\ psync' = [psync EXCEPT !.pc = "removing", !.next = j]
    /\ UNCHANGED <<pluginVars, platforms, platformsDir>>

\* cordova.raw.platform('rm', ...) settles and removePlatform returns or throws
RemovePlatformEnd ==
    /\ psync.pc = "removing"
    /\ \E outcome \in CommandOutcomes :
          /\ runCommandsEnd("main", outcome)
          /\ platformsDir' = IF outcome.kind = "resolve"
                             THEN platformsDir \ {psync.installedPlatforms[psync.next]}
                             ELSE platformsDir
          /\ psync' = IF Settle(outcome).kind = "return"
                      THEN [psync EXCEPT !.pc = "removes", !.next = @ + 1]
                      ELSE [psync EXCEPT !.pc = "done", !.result = Thrown(Settle(outcome))]
    /\ UNCHANGED <<pluginVars, platforms, pops>>

NextPlatforms ==
    \/ ReadPlatforms
    \/ AddPlatform
    \/ AddPlatformEnd
    \/ RemovePlatform
    \/ RemovePlatformEnd

SpecPlatforms == InitPlatforms /\ [][NextPlatforms]_vars

-----------------------------------------------------------------------------
(* A project whose platforms and then whose plugins are synchronized *)

\* the platforms and the plugins of the projects that run both reconcilers
ProjectPlatforms == {"ios", "android"}
ProjectPlatformsDirs == SUBSET {"android", "web"}
ProjectPluginNames == {"cordova-plugin-camera", "cordova-plugin-device"}
ProjectVersions == {<<"1.0.0">>, RelativeFile}
ProjectInstalledVersions == {<<"1.0.0">>}

InitProject ==
    /\ cwd = StartDir
    /\ spawnEnv = "inherited"
    /\ rc = [f \in Fibers |-> Idle]
    /\ calls = [f \in Fibers |-> 0]
    /\ cwdAtCall = [f \in Fibers |-> StartDir]
    /\ plugins \in MapsUpTo(ProjectPluginNames, ProjectVersions, MaxDesired)
    /\ \E before \in MapsUpTo(ProjectPluginNames, ProjectInstalledVersions, MaxInstalled) :
          fetchJson = [n \in DOMAIN before |-> pluginAddSource(targetForPlugin(n, before[n]))]
    /\ sync = NoSync
    /\ ops = <<>>
    /\ progress = <<>>
    /\ previous = NoPrevious
    /\ platforms \in ListsUpTo(ProjectPlatforms, MaxPlatforms)
    /\ platformsDir \in ProjectPlatformsDirs
    /\ psync = NoPlatformSync
    /\ pops = <<>>

\* ensurePlatformsAreSynchronized is called before the plugins are looked at
EnsurePlatforms == sync.pc = "idle" /\ ReadPlatforms

\* ensurePluginsAreSynchronized is called once the platforms are synchronized
EnsurePlugins == psync.pc = "done" /\ psync.result = "returned" /\ Decide

NextProject ==
    \/ EnsurePlatforms
    \/ AddPlatform
    \/ AddPlatformEnd
    \/ RemovePlatform
    \/ RemovePlatformEnd
    \/ EnsurePlugins
    \/ RemovePlugins
    \/ RemovePluginsEnd
    \/ StartInstall
    \/ AddPlugin
    \/ AddPluginEnd

SpecProject == InitProject /\ [][NextProject]_vars

-----------------------------------------------------------------------------
(* Properties of runCommands, under SpecRun *)

\* fiber f leaves runCommands in this step, by a return or by a throw
Exits(f) ==
    /\ rc'[f].pc = "idle"
    /\ rc[f].pc = "awaiting" \/ calls'[f] # calls[f]

\* C1: when a runCommands invocation exits, whatever cwd override it was given
\* and however its action settled, the process-wide working directory is the
\* one that was current immediately before the invocation.
C1_CwdRestoredOnExit ==
    [][\A f \in Fibers : Exits(f) => cwd' = cwdAtCall'[f]]_vars

\* an invocation that changed the working directory has exited by a throw and
\* the working directory is the one from before it
C1_Witness ==
    /\ rc["main"].pc = "idle"
    /\ rc["main"].cwdArg = ProjectRoot
    /\ rc["main"].outcome = [kind |-> "reject", value |-> "TypeError"]
    /\ rc["other"].pc = "idle"
    /\ calls["other"] = 0
    /\ cwd = StartDir

\* C7: a finished runCommands invocation whose action failed with a
\* CordovaError ended by throwing main.ExitWithCode(1); one whose action failed
\* with any other error ended by throwing that error; one whose action
\* resolved returned the value it resolved to.
C7_FailureClassification ==
    \A f \in Fibers :
        rc[f].pc = "idle" /\ rc[f].outcome.kind # "none" =>
            LET outcome == rc[f].outcome
                result == rc[f].result
            IN  /\ outcome = [kind |-> "reject", value |-> "CordovaError"] =>
                      result = [kind |-> "throw", value |-> "main.ExitWithCode", code |-> 1]
                /\ outcome.kind = "reject" /\ outcome.value # "CordovaError" =>
                      result.kind = "throw" /\ result.value = outcome.value
                /\ outcome.kind = "resolve" =>
                      result.kind = "return" /\ result.value = outcome.value

\* one fiber's invocation ended with the exit signal, the other's with the
\* error of its action
C7_Witness ==
    /\ rc["main"].pc = "idle"
    /\ rc["main"].outcome = [kind |-> "reject", value |-> "CordovaError"]
    /\ rc["main"].result.value = "main.ExitWithCode"
    /\ rc["other"].pc = "idle"
    /\ rc["other"].outcome = [kind |-> "reject", value |-> "TypeError"]
    /\ rc["other"].result.value = "TypeError"

\* C9: at most one runCommands invocation is outstanding at any moment.
C9_MutualExclusion ==
    Cardinality({f \in Fibers : rc[f].pc = "awaiting"}) <= 1

\* C17: whenever no runCommands invocation is outstanding, the process-wide
\* working directory is the one from before the first invocation began.
C17_NoCwdLeak ==
    (\A f \in Fibers : rc[f].pc = "idle") => cwd = StartDir

-----------------------------------------------------------------------------
(* Properties of the plugin reconciler, under SpecPlugins *)

\* an ensurePluginsAreSynchronized call has begun (and may have ended)
InSync == sync.pc \in {"remove", "removing", "install", "add", "adding", "done"}

\* an addPlugin call made on its own has begun (and may have ended)
InAddPlugin == sync.pc \in {"addPlugin", "added"}

\* the names handed to the toolchain's remove, and the names whose add was issued
RemovedNames == UNION {ops[i].names : i \in {j \in 1..Len(ops) : ops[j].op = "plugin rm"}}
AddedNames == UNION {ops[i].names : i \in {j \in 1..Len(ops) : ops[j].op = "plugin add"}}

LocalPathNames == {n \in DOMAIN plugins : isUrlWithFileScheme(plugins[n])}

\* some non-local-path plugin of the desired map is not installed, or is
\* installed with another normalized version
SomeVersionDiffers ==
    \E n \in DOMAIN plugins \ LocalPathNames :
        \/ n \notin DOMAIN sync.installedPlugins
        \/ sync.installedPlugins[n] # NormalizedVersion(plugins[n])

BareIsAbsent == \A n \in DOMAIN plugins : plugins[n] # <<>>

\* C3 as stated: a call that follows a call that returned, with the same
\* desired map (bare, registry, git or local-path specifiers), issues no
\* toolchain operation.
C3_Idempotent ==
    previous.result = "returned" /\ BareIsAbsent => ops = <<>>

\* C3 as amended: the same for a desired map with no local-path plugin.
C3_IdempotentWithoutLocalPath ==
    previous.result = "returned" /\ BareIsAbsent /\ LocalPathNames = {} => ops = <<>>

\* the first call removed and added plugins, one of them from a tarball URL,
\* and the second call has returned without an operation
C3_Witness ==
    /\ previous.result = "returned"
    /\ Len(previous.ops) = 3
    /\ LocalPathNames = {}
    /\ \E n \in DOMAIN plugins : plugins[n] \in TarballUrls
    /\ \E n \in DOMAIN plugins : plugins[n] = Undefined
    /\ sync.pc = "done"
    /\ sync.result = "returned"
    /\ ops = <<>>

\* the plugins that fetch.json, as read by the call, records as installed from
\* a local path
InstalledFromLocalPath == {n \in DOMAIN sync.fetched : sync.fetched[n].type = "local"}

\* every non-local-path plugin of the desired map is installed at its
\* normalized version
NonLocalPathAgree ==
    \A n \in DOMAIN plugins \ LocalPathNames :
        /\ n \in DOMAIN sync.installedPlugins
        /\ sync.installedPlugins[n] = NormalizedVersion(plugins[n])

\* C4 as stated: when the two maps agree on every non-local-path plugin and
\* differ only in entries of local-path plugins, nothing but local-path
\* plugins is removed or added and reinstallAll is false.
C4_LocalPathIsolation ==
    /\ InSync
    /\ NonLocalPathAgree
    /\ DOMAIN sync.installedPlugins \ DOMAIN plugins \subseteq InstalledFromLocalPath
    => /\ ~sync.shouldReinstallAllPlugins
       /\ RemovedNames \subseteq LocalPathNames \cup InstalledFromLocalPath
       /\ AddedNames \subseteq LocalPathNames

\* C4 as amended: the same when, in addition, every installed plugin is named
\* in the desired map, so that only entries of the desired map's local-path
\* plugins differ.
C4_LocalPathIsolationOfDesired ==
    /\ InSync
    /\ NonLocalPathAgree
    /\ DOMAIN sync.installedPlugins \subseteq DOMAIN plugins
    => /\ ~sync.shouldReinstallAllPlugins
       /\ RemovedNames \subseteq LocalPathNames
       /\ AddedNames \subseteq LocalPathNames

\* a call that left the matching registry plugin alone and removed and added
\* the local-path plugin, which was installed from the registry before
C4_Witness ==
    /\ sync.pc = "done"
    /\ sync.result = "returned"
    /\ NonLocalPathAgree
    /\ DOMAIN sync.installedPlugins = DOMAIN plugins
    /\ \E n \in DOMAIN plugins : plugins[n] = <<"1.0.0">>
    /\ \E n \in LocalPathNames : sync.fetched[n].type = "registry"
    /\ RemovedNames = LocalPathNames
    /\ AddedNames = LocalPathNames
    /\ Len(ops) = 2

\* an http(s) URL
IsHttpUrl(v) == Len(v) >= 2 /\ v[1] \in HttpSchemes

\* an http(s) URL that neither contains .git nor is a GitHub tarball URL with
\* a SHA
NeitherGitNorTarball(v) ==
    IsHttpUrl(v) /\ Positions(v, ".git") = {} /\ TarballSplits(v) = {}

\* no toolchain call is issued for a desired map with a plugin of Bad: a call of
\* ensurePluginsAreSynchronized issues none and ends with the Error, and so does
\* an addPlugin of such a plugin
RejectedWithoutCall(Bad) ==
    /\ InSync /\ Bad # {} =>
          ops = <<>> /\ sync.pc = "done" /\ sync.result = "Error"
    /\ InAddPlugin /\ Head(sync.pending) \in Bad =>
          ops = <<>> /\ sync.pc = "added" /\ sync.result = "Error"

\* C6 as stated: every URL specifier that neither contains .git nor matches
\* the tarball pattern is rejected before any toolchain call.
C6_UnsupportedUrlRejected ==
    RejectedWithoutCall({n \in DOMAIN plugins : NeitherGitNorTarball(plugins[n])})

\* C6 as amended: every http(s) URL specifier that carries a 40-hex SHA and
\* neither contains .git nor matches the tarball pattern is rejected before
\* any toolchain call.
C6_UnsupportedShaUrlRejected ==
    RejectedWithoutCall({n \in DOMAIN plugins :
        NeitherGitNorTarball(plugins[n]) /\ \E i \in 1..Len(plugins[n]) : plugins[n][i] \in Shas})

\* a call for a desired map with a rejected URL and a plugin that is not
\* installed has ended with the Error and without an operation, although a
\* plugin is installed that the map does not name
C6_Witness ==
    /\ sync.pc = "done"
    /\ sync.result = "Error"
    /\ ops = <<>>
    /\ \E n \in DOMAIN plugins : plugins[n] = OtherShaUrl
    /\ \E n \in DOMAIN plugins : plugins[n] = <<"1.0.0">> /\ n \notin DOMAIN sync.installedPlugins
    /\ \E n \in DOMAIN sync.installedPlugins : n \notin DOMAIN plugins
    /\ fetchJson = sync.fetched

\* the adds of the current call whose toolchain operation has completed: the
\* adds issued, less the one still awaited or the one that failed
CompletedAdds ==
    Cardinality(AddedNames)
      - (IF sync.pc = "adding" \/ (sync.pc = "done" /\ sync.result # "returned" /\ AddedNames # {})
         THEN 1 ELSE 0)

\* C8: in a call that installs N plugins the reports are (0,N), (1,N), ... in
\* this order, one more after each completed add and none before the removal
\* is over; every report carries the total N; and a call in which every add
\* succeeded has (N,N) as its last report, once.
C8_ProgressReports ==
    InSync =>
        LET N == Cardinality(DOMAIN sync.pluginsToInstall)
        IN  /\ \A i \in 1..Len(progress) : progress[i] = <<i - 1, N>>
            /\ sync.pc \in {"remove", "removing", "install"} => progress = <<>>
            /\ sync.pc \in {"add", "adding"} => Len(progress) = CompletedAdds + 1
            /\ sync.pc = "done" /\ progress # <<>> => Len(progress) = CompletedAdds + 1
            /\ /\ sync.pc = "done"
               /\ sync.result = "returned"
               /\ sync.shouldReinstallAllPlugins \/ LocalPathNames # {}
               => /\ N = Cardinality(IF sync.shouldReinstallAllPlugins
                                     THEN DOMAIN plugins ELSE LocalPathNames)
                  /\ Len(progress) = N + 1
                  /\ {i \in 1..Len(progress) : progress[i] = <<N, N>>} = {N + 1}

\* a reinstall of two plugins has returned after the reports (0,2), (1,2), (2,2)
C8_Witness ==
    /\ sync.pc = "done"
    /\ sync.result = "returned"
    /\ sync.shouldReinstallAllPlugins
    /\ Len(ops) = 3
    /\ progress = <<<<0, 2>>, <<1, 2>>, <<2, 2>>>>

\* the target and the comparison form of a GitHub tarball URL
RewrittenTarball(organization, repository, sha) ==
    <<"https://", "github.com", "/", organization, "/", repository, ".git", "#", sha>>

\* C10: for a plugin whose version is http(s)://github.com/<org>/<repo>/tarball/<sha>,
\* every add is issued for https://github.com/<org>/<repo>.git#<sha>; and the
\* reconciler compares this form with the url#ref of the installed plugin: a
\* different url#ref makes it reinstall, and the same url#ref, when this is
\* the only plugin desired and installed, makes it issue no operation.
C10_TarballRewrite ==
    \A n \in DOMAIN plugins, scheme \in HttpSchemes, organization \in {"meteor", "apache"},
       sha \in Shas :
        plugins[n] = <<scheme, "github.com", "/", organization, "/", "plugin", "/tarball/", sha>> =>
            LET rewritten == RewrittenTarball(organization, "plugin", sha)
                installed == sync.fetched[n].url \o <<"#">> \o sync.fetched[n].ref
            IN  /\ \A i \in 1..Len(ops) :
                      ops[i] = [op |-> "plugin add", names |-> {n}, target |-> ops[i].target]
                          => ops[i].target = rewritten
                /\ InSync /\ n \in DOMAIN sync.fetched /\ sync.fetched[n].type = "git" =>
                      /\ installed # rewritten => sync.shouldReinstallAllPlugins
                      /\ installed = rewritten /\ DOMAIN sync.fetched = {n} /\ DOMAIN plugins = {n}
                           => ~sync.shouldReinstallAllPlugins /\ ops = <<>>

\* a call for an http:// tarball URL at one SHA, with the plugin installed from
\* the Git URL at another SHA, has removed it and added the https:// Git URL
C10_Witness ==
    /\ sync.pc = "done"
    /\ sync.result = "returned"
    /\ plugins = [n \in {"cordova-plugin-camera"} |-> TarballUrl("http://", "meteor", "plugin", Sha2)]
    /\ sync.fetched = [n \in {"cordova-plugin-camera"} |->
                         GitSource(GitUrl("https://", "meteor", "plugin"), <<Sha1>>)]
    /\ ops = <<RmOp({"cordova-plugin-camera"}),
               AddOp("cordova-plugin-camera", RewrittenTarball("meteor", "plugin", Sha2))>>

\* the adds the current call has issued
AddOps == {i \in 1..Len(ops) : ops[i].op = "plugin add"}

\* the name of the plugin that add i is for, and its version in the desired map
AddedName(i) == CHOOSE n \in ops[i].names : TRUE
AddedVersion(i) == plugins[AddedName(i)]

ContainsGit(v) == \E k \in 1..Len(v) : v[k] = ".git"
HasSha(v) == \E k \in 1..Len(v) : v[k] \in Shas
IsFilePath(v) == Len(v) >= 2 /\ v[1] = "file://"
RegistryForm(n, v) == <<n, "@">> \o v

\* C11 as stated: the target of every add is the version itself when the
\* version contains .git, with or without a SHA; it is the bare name when the
\* version is empty or absent; and it is <name>@<version> only for a version
\* that is no URL with a SHA, no .git URL and no file:// path.
C11_GitPassesThrough ==
    \A i \in AddOps :
        LET n == AddedName(i)
            v == AddedVersion(i)
        IN  /\ v # Undefined /\ ContainsGit(v) => ops[i].target = v
            /\ v = Undefined \/ v = <<>> => ops[i].target = <<n>>
            /\ ops[i].target = RegistryForm(n, v) =>
                  ~(IsHttpUrl(v) /\ HasSha(v)) /\ ~ContainsGit(v) /\ ~IsFilePath(v)

\* C11 as amended: the target is the version itself when the version is an
\* http(s) URL with a 40-hex SHA that contains .git and is no GitHub tarball
\* URL; it is the bare name when the version is empty or absent; and it is
\* <name>@<version> exactly for a version that is neither empty, nor an
\* http(s) URL with a SHA, nor a file:// path (a .git URL without a SHA among
\* them).
C11_GitWithShaPassesThrough ==
    \A i \in AddOps :
        LET n == AddedName(i)
            v == AddedVersion(i)
        IN  /\ IsHttpUrl(v) /\ HasSha(v) /\ ContainsGit(v) /\ TarballSplits(v) = {}
                  => ops[i].target = v
            /\ v = Undefined \/ v = <<>> => ops[i].target = <<n>>
            /\ ops[i].target = RegistryForm(n, v) <=>
                  /\ v # Undefined /\ v # <<>>
                  /\ ~(IsHttpUrl(v) /\ HasSha(v))
                  /\ ~IsFilePath(v)

\* an addPlugin of a plugin given by an http:// .git URL with a SHA has issued
\* the add of that URL, as it is
C11_Witness ==
    /\ sync.pc = "added"
    /\ sync.result = "returned"
    /\ \E n \in DOMAIN plugins :
          /\ plugins[n] = GitUrl("http://", "meteor", "plugin") \o <<"#", Sha2>>
          /\ ops = <<AddOp(n, plugins[n])>>

\* a toolchain operation of the current ensurePluginsAreSynchronized call has
\* failed
Failed == InSync /\ rc["main"].pc = "idle" /\ rc["main"].outcome.kind = "reject"

\* fetch.json after the first i operations of the current call took effect
AppliedOps(i) ==
    LET F[j \in 0..i] ==
            IF j = 0 THEN sync.fetched
            ELSE IF ops[j].op = "plugin rm" THEN pluginRm(F[j - 1], ops[j].names)
            ELSE pluginAdd(F[j - 1], AddedName(j), ops[j].target)
    IN  F[i]

\* C12: once a toolchain operation of a call has failed, the call is over
\* with that failure and the failed operation is the last it issued: no
\* operation was issued twice, no remove follows an add, the adds of the
\* plugins after the failed one were never issued (none at all after a failed
\* remove), and fetch.json is what the operations before the failed one made
\* it, so the plugins added before the failure are installed.
C12_AbortWithoutRetryOrRollback ==
    Failed =>
        /\ sync.pc = "done"
        /\ sync.result \in {"main.ExitWithCode", "TypeError"}
        /\ ops # <<>>
        /\ \A i, j \in 1..Len(ops) : i # j => ops[i] # ops[j]
        /\ \A i \in 2..Len(ops) : ops[i].op = "plugin add"
        /\ ops[Len(ops)].op = "plugin rm" => AddedNames = {}
        /\ ops[Len(ops)].op = "plugin add" =>
              /\ AddedName(Len(ops)) = Head(sync.pending)
              /\ \A k \in 2..Len(sync.pending) : sync.pending[k] \notin AddedNames
        /\ fetchJson = AppliedOps(Len(ops) - 1)
        /\ \A i \in 1..(Len(ops) - 1) :
              ops[i].op = "plugin add" => AddedName(i) \in DOMAIN fetchJson

\* a reinstall of two plugins removed the installed plugin and added the
\* first; the add of the second failed with a CordovaError; the call is over
\* and the first plugin is installed
C12_Witness ==
    /\ Failed
    /\ sync.result = "main.ExitWithCode"
    /\ Len(ops) = 3
    /\ ops[1].op = "plugin rm"
    /\ sync.pending = <<"cordova-plugin-file">>
    /\ DOMAIN fetchJson = {"cordova-plugin-camera"}
    /\ DOMAIN sync.fetched = {"cordova-plugin-device"}

\* the removes the current call has issued
RmOps == {i \in 1..Len(ops) : ops[i].op = "plugin rm"}

\* the names the call is to remove: every installed name when it reinstalls
\* all plugins, the installed local-path names of the desired map otherwise
ToRemove ==
    IF sync.shouldReinstallAllPlugins THEN DOMAIN sync.installedPlugins
    ELSE LocalPathNames \cap DOMAIN sync.installedPlugins

\* C15: a call issues at most one remove, as its first operation, for the
\* whole set of names to remove; it issues none, and starts no runCommands for
\* one, when that set is empty; every add is for one plugin, no two adds are
\* for the same plugin, and a call that returns has issued one add for each
\* plugin to install; and each operation is one runCommands invocation.
C15_BatchedRemove ==
    InSync =>
        /\ RmOps \subseteq {1}
        /\ \A i \in RmOps : ops[i].names = ToRemove /\ ToRemove # {}
        /\ sync.pc \in {"removing", "install", "add", "adding"} /\ ToRemove # {} => RmOps = {1}
        /\ \A i \in AddOps : Cardinality(ops[i].names) = 1
        /\ \A i, j \in AddOps : i # j => ops[i].names # ops[j].names
        /\ sync.pc = "done" /\ sync.result = "returned" =>
              Cardinality(AddOps) = Cardinality(DOMAIN sync.pluginsToInstall)
        /\ Len(ops) = Cardinality(RmOps) + Cardinality(AddOps)
        /\ calls["main"] = Len(previous.ops) + Len(ops)

\* a reinstall has removed the two installed plugins in one operation and
\* added the two desired plugins in two, and returned
C15_Witness ==
    /\ sync.pc = "done"
    /\ sync.result = "returned"
    /\ previous = NoPrevious
    /\ Cardinality(DOMAIN sync.installedPlugins) = 2
    /\ Len(ops) = 3
    /\ ops[1] = RmOp(DOMAIN sync.installedPlugins)
    /\ Cardinality(AddOps) = 2
    /\ calls["main"] = 3
    /\ DOMAIN plugins # DOMAIN sync.installedPlugins

\* the desired map with every version in its comparison form: a GitHub
\* tarball URL as the Git URL with the SHA, any other version as it is
NormalizedDesired ==
    [n \in DOMAIN plugins |->
        IF TarballSplits(plugins[n]) # {}
        THEN LET match == TarballMatch(plugins[n])
             IN  RewrittenTarball(match.organization[1], match.repository[1], match.sha)
        ELSE plugins[n]]

\* C16: a call for a desired map without local-path plugins that finds every
\* desired plugin installed at its normalized version, and no other plugin
\* installed, returns without a toolchain operation, a runCommands invocation
\* or a progress report, and leaves fetch.json alone; and a call returns
\* without operation and report only when the installed map is the
\* normalized desired map.
C16_NoOpBranch ==
    InSync =>
        /\ /\ LocalPathNames = {}
           /\ NonLocalPathAgree
           /\ DOMAIN sync.installedPlugins \subseteq DOMAIN plugins
           => /\ sync.pc = "done"
              /\ sync.result = "returned"
              /\ ~sync.shouldReinstallAllPlugins
              /\ ops = <<>>
              /\ progress = <<>>
              /\ calls["main"] = Len(previous.ops)
              /\ fetchJson = sync.fetched
        /\ sync.pc = "done" /\ sync.result = "returned" /\ ops = <<>> /\ progress = <<>>
           => /\ LocalPathNames = {}
              /\ sync.installedPlugins = NormalizedDesired

\* a first call for a registry plugin and a plugin given by a tarball URL, both
\* installed as desired, has returned without an operation
C16_Witness ==
    /\ sync.pc = "done"
    /\ sync.result = "returned"
    /\ previous = NoPrevious
    /\ ops = <<>>
    /\ progress = <<>>
    /\ calls["main"] = 0
    /\ \E n \in DOMAIN plugins : plugins[n] = <<"1.0.0">>
    /\ \E n \in DOMAIN plugins : plugins[n] \in TarballUrls
    /\ DOMAIN sync.installedPlugins = DOMAIN plugins

\* C18: every name a call hands to the toolchain's remove is the name of a
\* plugin that fetch.json recorded when the call began: all of these names
\* when the call reinstalls all plugins, local-path names of the desired map
\* among them otherwise.
C18_RemovedAreInstalled ==
    InSync =>
        \A i \in RmOps :
            /\ ops[i].names \subseteq DOMAIN sync.fetched
            /\ sync.shouldReinstallAllPlugins => ops[i].names = DOMAIN sync.fetched
            /\ ~sync.shouldReinstallAllPlugins =>
                  ops[i].names \subseteq {n \in DOMAIN plugins : IsFilePath(plugins[n])}

\* two local-path plugins are desired and one of them is installed: the call
\* has removed that one only, added both, and returned
C18_Witness ==
    /\ sync.pc = "done"
    /\ sync.result = "returned"
    /\ ~sync.shouldReinstallAllPlugins
    /\ Cardinality(LocalPathNames) = 2
    /\ Cardinality(DOMAIN sync.fetched) = 1
    /\ Len(ops) = 3
    /\ ops[1] = RmOp(DOMAIN sync.fetched)
    /\ AddedNames = LocalPathNames

\* C19: when a call has returned, the toolchain having carried out each of
\* its operations, the plugins that fetch.json records are the plugins the
\* desired map names, whatever fetch.json recorded before.
C19_PluginConvergence ==
    InSync /\ sync.pc = "done" /\ sync.result = "returned" =>
        DOMAIN fetchJson = DOMAIN plugins

\* one plugin was installed and two others are desired: the call has removed
\* the one, added the two and returned, and the two are installed
C19_Witness ==
    /\ sync.pc = "done"
    /\ sync.result = "returned"
    /\ previous = NoPrevious
    /\ Cardinality(DOMAIN sync.fetched) = 1
    /\ Cardinality(DOMAIN plugins) = 2
    /\ DOMAIN sync.fetched \cap DOMAIN plugins = {}
    /\ Len(ops) = 3
    /\ DOMAIN fetchJson = DOMAIN plugins

-----------------------------------------------------------------------------
(* Properties of the platform reconciler, under SpecPlatforms *)

\* how many times the current call has issued operation op for platform
Issued(op, platform) ==
    Cardinality({i \in 1..Len(pops) : pops[i] = [op |-> op, platform |-> platform]})

DesiredPlatforms == {platforms[i] : i \in 1..Len(platforms)}
InstalledAtStart == {psync.installedPlatforms[i] : i \in 1..Len(psync.installedPlatforms)}

\* C5: a call in which every toolchain call succeeded has issued one add for
\* each desired platform that was not installed, one remove for each installed
\* platform of AVAILABLE_PLATFORMS that is not desired, and nothing else; and
\* no call ever removes a platform outside AVAILABLE_PLATFORMS.
C5_PlatformDiff ==
    /\ psync.pc = "done" /\ psync.result = "returned" =>
          /\ \A p \in Platforms :
                /\ Issued("platform add", p) =
                      (IF p \in DesiredPlatforms \ InstalledAtStart THEN 1 ELSE 0)
                /\ Issued("platform rm", p) =
                      (IF p \in (InstalledAtStart \ DesiredPlatforms) \cap {"ios", "android", "web"}
                       THEN 1 ELSE 0)
          /\ Len(pops) = Cardinality(DesiredPlatforms \ InstalledAtStart)
                + Cardinality((InstalledAtStart \ DesiredPlatforms) \cap {"ios", "android", "web"})
    /\ \A i \in 1..Len(pops) :
          pops[i].op = "platform rm" => pops[i].platform \in {"ios", "android", "web"}

\* desired ios and android, installed android, web and a platform that is not
\* known: the call has added ios, removed web and returned
C5_Witness ==
    /\ psync.pc = "done"
    /\ psync.result = "returned"
    /\ psync.previous = NoPrevious
    /\ platforms = <<"ios", "android">>
    /\ InstalledAtStart = {"android", "web", "blackberry10"}
    /\ pops = <<PlatformOp("platform add", "ios"), PlatformOp("platform rm", "web")>>
    /\ platformsDir = {"ios", "android", "blackberry10"}

\* a toolchain operation of the current ensurePlatformsAreSynchronized call
\* has failed
PlatformFailed ==
    /\ psync.pc # "idle"
    /\ rc["main"].pc = "idle"
    /\ rc["main"].outcome.kind = "reject"

\* the platforms of the first i operations of the current call that are op
PlatformsOf(op, i) == {pops[j].platform : j \in {k \in 1..i : pops[k].op = op}}

\* C13: every platform operation is one runCommands invocation; and once an
\* operation of a call has failed, the call is over with that failure and the
\* failed operation is the last it issued: there is no remove at all when it
\* is an add, and the project directory holds the effect of exactly the
\* operations before it.
C13_PlatformAbort ==
    /\ psync.pc # "idle" => calls["main"] = Len(psync.previous.ops) + Len(pops)
    /\ PlatformFailed =>
          /\ psync.pc = "done"
          /\ psync.result \in {"main.ExitWithCode", "TypeError"}
          /\ pops # <<>>
          /\ pops[Len(pops)].op = "platform add" => PlatformsOf("platform rm", Len(pops)) = {}
          /\ platformsDir = (InstalledAtStart \cup PlatformsOf("platform add", Len(pops) - 1))
                                \ PlatformsOf("platform rm", Len(pops) - 1)

\* desired ios and android, installed web: the add of ios succeeded, the add
\* of android failed with a CordovaError, and web was not removed
C13_Witness ==
    /\ PlatformFailed
    /\ psync.result = "main.ExitWithCode"
    /\ platforms = <<"ios", "android">>
    /\ InstalledAtStart = {"web"}
    /\ pops = <<PlatformOp("platform add", "ios"), PlatformOp("platform add", "android")>>
    /\ platformsDir = {"web", "ios"}
    /\ calls["main"] = 2

\* C20: when a call has returned, the toolchain having carried out each of
\* its operations, every desired platform is installed and every installed
\* platform of AVAILABLE_PLATFORMS is desired; and the call that follows it,
\* for the same desired platforms, issues no operation.
C20_PlatformConvergence ==
    /\ psync.pc = "done" /\ psync.result = "returned" =>
          /\ DesiredPlatforms \subseteq platformsDir
          /\ platformsDir \cap {"ios", "android", "web"} \subseteq DesiredPlatforms
    /\ psync.pc # "idle" /\ psync.previous.result = "returned" =>
          /\ pops = <<>>
          /\ calls["main"] = Len(psync.previous.ops)

\* desired android and ios, installed web and a platform that is not known:
\* the first call added android and ios and removed web, and the second call
\* has returned without an operation
C20_Witness ==
    /\ psync.pc = "done"
    /\ psync.result = "returned"
    /\ psync.previous.result = "returned"
    /\ platforms = <<"android", "ios">>
    /\ psync.previous.ops = <<PlatformOp("platform add", "android"),
                              PlatformOp("platform add", "ios"),
                              PlatformOp("platform rm", "web")>>
    /\ pops = <<>>
    /\ platformsDir = {"android", "ios", "blackberry10"}

-----------------------------------------------------------------------------
(* Properties of both reconcilers, under SpecProject *)

\* C14: in the operations of one ensurePlatformsAreSynchronized call every
\* add stands before every remove, and in the operations of one
\* ensurePluginsAreSynchronized call the remove stands before every add.
C14_OperationOrdering ==
    /\ \A i, j \in 1..Len(pops) :
          pops[i].op = "platform add" /\ pops[j].op = "platform rm" => i < j
    /\ \A i, j \in 1..Len(ops) :
          ops[i].op = "plugin rm" /\ ops[j].op = "plugin add" => i < j

\* the platform call added ios and then removed android, and the plugin call
\* removed the installed plugin and then added the desired one
C14_Witness ==
    /\ pops = <<PlatformOp("platform add", "ios"), PlatformOp("platform rm", "android")>>
    /\ psync.pc = "done"
    /\ sync.pc = "done"
    /\ sync.result = "returned"
    /\ Len(ops) = 2
    /\ ops[1] = RmOp({"cordova-plugin-device"})
    /\ ops[2].op = "plugin add"
    /\ ops[2].names = {"cordova-plugin-camera"}

=============================================================================
